---- MODULE Spec2Model ----
(***************************************************************************)
(* Model of the Entity-Component-System core and the fixed-step game loop  *)
(* of fps-3d: class World and class ECS (features/core/ecs/ecs.ts) and     *)
(* class GameLoop (features/core/loop/gameLoop.ts), and of the stores      *)
(* useGameStore, useEnemyStore, usePlayerStore and useLevelManager.        *)
(***************************************************************************)
EXTENDS Integers, Sequences, FiniteSets, TLC

VARIABLES
  systems,     \* ECS.systems: the array of registered System objects
  isRunning,   \* ECS.isRunning
  calls,       \* hook invocations made by the last facade call, in order
  initCount,   \* per system: init hooks run since the last effective init()
  early,       \* systems whose update hook ran before their init hook
  inputState,  \* the inputState object of the input system
  entities,    \* World.entities: array of references to entity objects
  heap,        \* the entity objects: reference -> (key -> value)
  rank,        \* per slot of World.entities: its place in the order of the
               \* World.add calls among the slots now in the array
  result,      \* what the last World.query returned
  op,          \* the last call and its arguments
  loops,       \* the GameLoop objects
  host,        \* per GameLoop: handles of the frames requested from the host
  seen,        \* per GameLoop: what its frame callbacks did since start()
  useGameStore,     \* the state of the game store
  useEnemyStore,    \* the state of the enemy store
  usePlayerStore,   \* the state of the player store
  useLevelManager,  \* the state of the level manager store
  timeouts          \* the setTimeout callbacks not yet run, oldest first

sysVars == <<systems, isRunning, calls, initCount, early, inputState>>
worldVars == <<entities, heap, rank, result>>
loopVars == <<loops, host, seen>>
storeVars == <<useGameStore, useEnemyStore, usePlayerStore, useLevelManager,
               timeouts>>
vars == <<systems, isRunning, calls, initCount, early, inputState, entities,
          heap, rank, result, op, loops, host, seen, useGameStore,
          useEnemyStore, usePlayerStore, useLevelManager, timeouts>>

----------------------------------------------------------------------------
(* Bounds *)

MaxSystems == 3      \* longest system list explored
CountCap == 2        \* hook counters saturate here
MaxEntities == 2     \* longest World.entities explored
MantissaBits == 11   \* significand bits of a Number (a double has 53)
MaxSubscribers == 2  \* longest GameLoop.subscribers explored
VsyncLag == 10       \* ms a frame's timestamp may lie before performance.now()
MaxLagFrames == 1    \* frames per loop explored with such a timestamp
MaxPosition == 1000  \* no tick is explored once an entity is farther out

----------------------------------------------------------------------------
(* Constants of the program *)

DefaultFrameRate == 60       \* private frameRate: number = 60
DefaultMaxDeltaTime == 250   \* private maxDeltaTime: number = 250
MsPerSecond == 1000          \* timeStep = 1000 / frameRate

\* lengths and speeds are counted in tenths of the source's unit
Gravity == 98       \* 9.8 * delta
PlayerSpeed == 50   \* speed: 5
JumpForce == 50     \* jumpForce: 5
StartHeight == 10   \* position: [0, 1, 0]
BoxWidth == 10      \* size[0] of size = [1, 2, 1]
BoxHeight == 20     \* size[1] of size = [1, 2, 1]

----------------------------------------------------------------------------
(* System objects.  input, playerMovement and physics are the repository's *)
(* systems; boot, spawn and bare are caller-written systems: a hook of     *)
(* boot and of spawn registers inputSystem, bare has no hooks at all.      *)

RepoSystems == {"input", "playerMovement", "physics"}
SysIds == RepoSystems \cup {"boot", "spawn", "bare"}

\* System.name
SysName(s) == s

\* System.dependencies
Dependencies(s) ==
  CASE s = "playerMovement" -> {"input"}
    [] s = "physics" -> {"playerMovement"}
    [] s = "spawn" -> {"input"}
    [] OTHER -> {}

\* Optional hooks (System.init?, System.update?, System.cleanup?)
HasInit(s) == s # "bare"
HasUpdate(s) == s \notin {"bare", "boot"}
HasCleanup(s) == s # "bare"

\* Systems that the hook registers (when not yet registered) by calling
\* ECS.registerSystem from inside the hook
InitRegisters(s) == IF s = "boot" THEN {"input"} ELSE {}
UpdateRegisters(s) == IF s = "spawn" THEN {"input"} ELSE {}

\* Arguments (delta, elapsedTime) of ECS.update
UpdateArgs == {<<16, 1>>, <<33, 2>>}

----------------------------------------------------------------------------
(* Array.prototype.sort with the comparator of ECS.sortSystems *)

Range(f) == {f[i] : i \in DOMAIN f}

\* systemIndices: name -> index (0-based), the last entry with that name wins
SystemIndex(list, n) ==
  LET hits == {i \in 1..Len(list) : SysName(list[i]) = n}
  IN  (CHOOSE i \in hits : \A j \in hits : j <= i) - 1

\* the comparator (a, b) => ... of sortSystems
Compare(list, a, b) ==
  IF SysName(a) \in Dependencies(b) THEN -1
  ELSE IF SysName(b) \in Dependencies(a) THEN 1
  ELSE SystemIndex(list, SysName(a)) - SystemIndex(list, SysName(b))

\* ECMA-262 "consistent comparator" over the values of the list
ConsistentComparator(list) ==
  LET S == Range(list)
      lt(a, b) == Compare(list, a, b) < 0
      eq(a, b) == Compare(list, a, b) = 0
      gt(a, b) == Compare(list, a, b) > 0
  IN  /\ \A a \in S : eq(a, a)
      /\ \A a, b \in S : eq(a, b) => eq(b, a)
      /\ \A a, b, c \in S : (eq(a, b) /\ eq(b, c)) => eq(a, c)
      /\ \A a, b, c \in S : (lt(a, b) /\ lt(b, c)) => lt(a, c)
      /\ \A a, b, c \in S : (gt(a, b) /\ gt(b, c)) => gt(a, c)

\* the permutations of 1..n, for every array length explored
IndexPerms ==
  [n \in 0..(MaxSystems + 1) |->
     {p \in [1..n -> 1..n] : \A i, j \in 1..n : p[i] = p[j] => i = j}]

\* The arrays Array.prototype.sort may leave: the stable sorted order when
\* the comparator is consistent, an implementation-defined permutation of the
\* elements when it is not (ECMA-262 23.1.3.30).
SortOutcomes(list) ==
  LET n == Len(list)
      apply(p) == [i \in 1..n |-> list[p[i]]]
      stableSorted(p) ==
        \A j, k \in 1..n : j < k =>
          \/ Compare(list, list[p[j]], list[p[k]]) < 0
          \/ Compare(list, list[p[j]], list[p[k]]) = 0 /\ p[j] < p[k]
  IN  IF ConsistentComparator(list)
      THEN {apply(p) : p \in {q \in IndexPerms[n] : stableSorted(q)}}
      ELSE {apply(p) : p \in IndexPerms[n]}

\* ECS.sortSystems
sortSystems(m) == {[m EXCEPT !.systems = l] : l \in SortOutcomes(m.systems)}

----------------------------------------------------------------------------
(* Entities.  An entity object maps keys to JavaScript values; a value is   *)
(* [kind, n]: "nano" a string made by nanoid(), "str" a caller's string,    *)
(* "obj" an object whose identity is n, "data" a component object with      *)
(* contents n, "falsy" the number 0.  A missing key reads as undefined.     *)
(* The components the repository's systems compute with carry the numbers   *)
(* they read and write: position[0] and position[1] of a transform,         *)
(* velocity[1] and static of a physics component, isJumping of a player.    *)
(* position[2], velocity[0] and velocity[2] are 0 in every entity explored  *)
(* and stay 0, as no key that moves forward is among the keys explored.     *)

Keys == {"id", "transform", "physics", "player"}
Undefined == [kind |-> "undefined", n |-> 0]
Nano(k) == [kind |-> "nano", n |-> k]
Str(k) == [kind |-> "str", n |-> k]
Obj(k) == [kind |-> "obj", n |-> k]
Data(k) == [kind |-> "data", n |-> k]
Falsy == [kind |-> "falsy", n |-> 0]
Transform(x, y) == [kind |-> "transform", x |-> x, y |-> y]
Physics(vy, static) == [kind |-> "physics", vy |-> vy, static |-> static]
Player(isJumping) == [kind |-> "player", isJumping |-> isJumping]

\* entity[key]
Get(e, k) == IF k \in DOMAIN e THEN e[k] ELSE Undefined

\* JavaScript truthiness, as in if (entity[componentType])
Truthy(v) == v.kind \notin {"undefined", "falsy"}

\* entity[key] = v
Put(e, k, v) == [x \in DOMAIN e \cup {k} |-> IF x = k THEN v ELSE e[x]]

\* delete entity[key]
Delete(e, k) == [x \in DOMAIN e \ {k} |-> e[x]]

\* { id: nanoid(), ...components }: the spread is applied after the id
Spread(idValue, components) ==
  [x \in {"id"} \cup DOMAIN components |->
     IF x \in DOMAIN components THEN components[x] ELSE idValue]

\* this.entities.findIndex((e) => e.id === id), 0 when there is none
FindIndex(w, id) ==
  LET hits == {i \in 1..Len(w.entities) : Get(w.heap[w.entities[i]], "id") = id}
  IN  IF hits = {} THEN 0 ELSE CHOOSE i \in hits : \A j \in hits : i <= j

\* Array.prototype.splice(index, 1)
Splice(seq, i) == [j \in 1..(Len(seq) - 1) |-> IF j < i THEN seq[j] ELSE seq[j + 1]]

\* the places of the slots that stay, after the slot at i is gone
Unrank(seq, i) ==
  [j \in 1..(Len(seq) - 1) |->
     LET v == IF j < i THEN seq[j] ELSE seq[j + 1]
     IN  IF v > seq[i] THEN v - 1 ELSE v]

\* World.add with unshift in place of push
WorldAdd_Unshift(w, r) ==
  [w EXCEPT !.entities = <<r>> \o @, !.rank = <<Len(w.rank) + 1>> \o @]

\* World.add
WorldAdd(w, r) ==
  [w EXCEPT !.entities = Append(@, r), !.rank = Append(@, Len(w.rank) + 1)]

\* World.remove without the index !== -1 test: splice(-1, 1) drops the last
WorldRemove_NoCheck(w, r) ==
  LET index == FindIndex(w, Get(w.heap[r], "id"))
      at == IF index # 0 THEN index ELSE Len(w.entities)
  IN  IF at # 0
      THEN [w EXCEPT !.entities = Splice(@, at), !.rank = Unrank(@, at)]
      ELSE w

\* World.remove with findLastIndex in place of findIndex
WorldRemove_Last(w, r) ==
  LET hits == {i \in 1..Len(w.entities) :
                 Get(w.heap[w.entities[i]], "id") = Get(w.heap[r], "id")}
      index == IF hits = {} THEN 0 ELSE CHOOSE i \in hits : \A j \in hits : i >= j
  IN  IF index # 0
      THEN [w EXCEPT !.entities = Splice(@, index), !.rank = Unrank(@, index)]
      ELSE w

\* World.remove
WorldRemove(w, r) ==
  LET index == FindIndex(w, Get(w.heap[r], "id"))
  IN  IF index # 0
      THEN [w EXCEPT !.entities = Splice(@, index), !.rank = Unrank(@, index)]
      ELSE w

\* World.update
WorldUpdate(w, r) ==
  LET index == FindIndex(w, Get(w.heap[r], "id"))
  IN  IF index # 0 THEN [w EXCEPT !.entities[index] = r] ELSE w

\* the predicates World.query is called with: "player" and "physics" are
\* those of playerMovementSystem and physicsSystem, the others are callers'
QueryNames == {"transform", "moved", "noid"}
QueryFn(q, e) ==
  CASE q = "transform" -> Truthy(Get(e, "transform"))
    [] q = "physics" -> Truthy(Get(e, "physics")) /\ Truthy(Get(e, "transform"))
    [] q = "player" -> /\ Truthy(Get(e, "player"))
                       /\ Truthy(Get(e, "transform"))
                       /\ Truthy(Get(e, "physics"))
    [] q = "moved" -> Get(e, "transform") = Data(2)
    [] q = "noid" -> ~Truthy(Get(e, "id"))

\* World.query: Array.prototype.filter over the entity array; q names queryFn
RECURSIVE Filter(_, _, _)
Filter(w, q, i) ==
  IF i > Len(w.entities) THEN <<>>
  ELSE (IF QueryFn(q, w.heap[w.entities[i]]) THEN <<w.entities[i]>> ELSE <<>>)
       \o Filter(w, q, i + 1)

WorldQuery(w, q) == Filter(w, q, 1)

\* the least positive number outside a finite set of numbers
LeastUnused(used) == CHOOSE k \in 1..(Cardinality(used) + 1) :
                       k \notin used /\ \A j \in 1..(k - 1) : j \in used

\* the reference a new object gets: any reference no object has
NewRef(w) == LeastUnused(DOMAIN w.heap)

\* a new object on the heap
Alloc(w, e) ==
  [w EXCEPT !.heap = [x \in DOMAIN @ \cup {NewRef(w)} |->
                        IF x = NewRef(w) THEN e ELSE @[x]]]

\* the serial numbers of the values of a kind held under "id" in the World
Held(w, kind) ==
  {Get(w.heap[r], "id").n : r \in {x \in DOMAIN w.heap : Get(w.heap[x], "id").kind = kind}}

\* nanoid(): a string no entity has as its id
nanoid(w) == Nano(LeastUnused(Held(w, "nano")))

\* ECS.createEntity
createEntity(w, components) ==
  LET r == NewRef(w)
  IN  WorldAdd(Alloc(w, Spread(nanoid(w), components)), r)

\* ECS.getEntity: the reference found, 0 for undefined
getEntity(w, entityId) ==
  LET index == FindIndex(w, entityId)
  IN  IF index = 0 THEN 0 ELSE w.entities[index]

\* ECS.removeEntity
removeEntity(w, entityId) ==
  LET entity == getEntity(w, entityId)
  IN  IF entity # 0 THEN WorldRemove(w, entity) ELSE w

\* ECS.addComponent; { ...componentData } is a new object
addComponent(w, entityId, componentType, componentData) ==
  LET entity == getEntity(w, entityId)
      copy == IF componentType = "id" THEN Obj(LeastUnused(Held(w, "obj")))
              ELSE componentData
      w1 == [w EXCEPT !.heap[entity] = Put(@, componentType, copy)]
  IN  IF entity # 0 THEN WorldUpdate(w1, entity) ELSE w

\* ECS.removeComponent
removeComponent(w, entityId, componentType) ==
  LET entity == getEntity(w, entityId)
  IN  IF entity # 0 /\ Truthy(Get(w.heap[entity], componentType))
      THEN WorldUpdate([w EXCEPT !.heap[entity] = Delete(@, componentType)], entity)
      ELSE w

\* entities.forEach of a caller-written system: change the entity's
\* transform in place, then World.update(entity)
RECURSIVE MoveEach(_, _, _)
MoveEach(w, found, i) ==
  IF i > Len(found) THEN w
  ELSE LET r == found[i]
           n == Get(w.heap[r], "transform").n
           w1 == [w EXCEPT !.heap[r] = Put(@, "transform", Data(3 - n))]
       IN  MoveEach(WorldUpdate(w1, r), found, i + 1)

\* the update hook of a caller-written system that moves the entities its
\* query finds
MoveQueried(w, q) == MoveEach(w, WorldQuery(w, q), 1)

----------------------------------------------------------------------------
(* The systems of the repository *)

\* the keys whose state the explored key events change
KeySet == {"d", " "}

\* const inputState: no key down, no movement
NewInputState == [keys |-> {}, right |-> 0, jump |-> FALSE]

\* handleKeyDown / handleKeyUp
handleKeyDown(in, key) == [in EXCEPT !.keys = @ \cup {key}]
handleKeyUp(in, key) == [in EXCEPT !.keys = @ \ {key}]

\* inputSystem.update
InputUpdate(in) ==
  [in EXCEPT !.right = (IF "d" \in in.keys THEN 1 ELSE 0)
                       - (IF "a" \in in.keys THEN 1 ELSE 0),
             !.jump = " " \in in.keys]

\* the body of players.forEach in playerMovementSystem.update, up to
\* world.update(player)
MovePlayer(e, in, delta) ==
  LET moveSpeed == PlayerSpeed * delta
      x1 == e.transform.x + in.right * moveSpeed
      jumps == in.jump /\ ~e.player.isJumping
      isJumping == e.player.isJumping \/ jumps
      vy1 == IF jumps THEN JumpForce ELSE e.physics.vy
      vy2 == IF isJumping THEN vy1 - Gravity * delta ELSE vy1
      landed == isJumping /\ e.transform.y <= 0
      y3 == IF landed THEN 0 ELSE e.transform.y
      vy3 == IF landed THEN 0 ELSE vy2
  IN  [e EXCEPT !.transform = Transform(x1, y3 + vy3 * delta),
                !.physics = Physics(vy3, e.physics.static),
                !.player = Player(isJumping /\ ~landed)]

RECURSIVE MovePlayers(_, _, _, _, _)
MovePlayers(w, found, i, in, delta) ==
  IF i > Len(found) THEN w
  ELSE LET r == found[i]
           w1 == [w EXCEPT !.heap[r] = MovePlayer(@, in, delta)]
       IN  MovePlayers(WorldUpdate(w1, r), found, i + 1, in, delta)

\* playerMovementSystem.update
PlayerMovementUpdate(w, in, delta) ==
  MovePlayers(w, WorldQuery(w, "player"), 1, in, delta)

\* Step 1 of physicsSystem.update: gravity on the entities that are not static
RECURSIVE ApplyForces(_, _, _, _)
ApplyForces(w, found, i, delta) ==
  IF i > Len(found) THEN w
  ELSE LET r == found[i]
       IN  ApplyForces(IF w.heap[r].physics.static THEN w
                       ELSE [w EXCEPT !.heap[r].physics.vy = @ - Gravity * delta],
                       found, i + 1, delta)

\* checkCollision of the boxes generateCollisionBox makes of two positions
checkCollision(a, b) ==
  /\ 2 * a.x - BoxWidth <= 2 * b.x + BoxWidth
  /\ 2 * a.x + BoxWidth >= 2 * b.x - BoxWidth
  /\ a.y <= b.y + BoxHeight
  /\ a.y + BoxHeight >= b.y

\* the body of the second physicsEntities.forEach, up to world.update(entity)
Integrate(w, found, r, delta) ==
  LET e == w.heap[r]
      y1 == e.transform.y + e.physics.vy * delta
      grounded == y1 < 0
      position == Transform(e.transform.x, IF grounded THEN 0 ELSE y1)
      vy1 == IF grounded THEN 0 ELSE e.physics.vy
      collided == \E k \in 1..Len(found) :
                    /\ Get(e, "id") # Get(w.heap[found[k]], "id")
                    /\ w.heap[found[k]].physics.static
                    /\ checkCollision(position, w.heap[found[k]].transform)
  IN  [e EXCEPT !.transform = IF collided THEN e.transform ELSE position,
                !.physics = Physics(IF collided THEN 0 ELSE vy1, FALSE)]

\* Step 2 and Step 3 of physicsSystem.update
RECURSIVE UpdatePositions(_, _, _, _)
UpdatePositions(w, found, i, delta) ==
  IF i > Len(found) THEN w
  ELSE LET r == found[i]
       IN  UpdatePositions(
             IF w.heap[r].physics.static THEN w
             ELSE WorldUpdate([w EXCEPT !.heap[r] = Integrate(w, found, r, delta)], r),
             found, i + 1, delta)

\* physicsSystem.update
PhysicsUpdate(w, delta) ==
  LET found == WorldQuery(w, "physics")
  IN  UpdatePositions(ApplyForces(w, found, 1, delta), found, 1, delta)

----------------------------------------------------------------------------
(* The facade calls on the ECS state m = [systems, isRunning, world, calls, *)
(* initCount, early]; each yields the set of states the call can end in.    *)

Bump(n) == IF n < CountCap THEN n + 1 ELSE n

Logged(m, s, hook, d, t) ==
  [m EXCEPT !.calls = Append(@, [sys |-> s, hook |-> hook, delta |-> d, time |-> t]),
            !.initCount[s] = IF hook = "init" THEN Bump(@) ELSE @,
            !.early = IF hook = "update" /\ HasInit(s) /\ m.initCount[s] = 0
                      THEN @ \cup {s} ELSE @]

RECURSIVE registerSystem(_, _), RunInit(_, _), RunUpdate(_, _, _, _)

\* system.init(this.world)
RunInit(m, s) ==
  LET m1 == Logged(m, s, "init", 0, 0)
      todo == {t \in InitRegisters(s) : t \notin Range(m1.systems)}
  IN  IF todo = {} \/ Len(m1.systems) >= MaxSystems THEN {m1}
      ELSE UNION {registerSystem(m1, t) : t \in todo}

\* system.update(this.world, delta, elapsedTime)
RunUpdate(m, s, d, t) ==
  LET m0 == Logged(m, s, "update", d, t)
      m1 == CASE s = "input" -> [m0 EXCEPT !.inputState = InputUpdate(@)]
              [] s = "playerMovement" ->
                   [m0 EXCEPT !.world = PlayerMovementUpdate(@, m0.inputState, d)]
              [] s = "physics" -> [m0 EXCEPT !.world = PhysicsUpdate(@, d)]
              [] OTHER -> m0
      todo == {x \in UpdateRegisters(s) : x \notin Range(m1.systems)}
  IN  IF todo = {} \/ Len(m1.systems) >= MaxSystems THEN {m1}
      ELSE UNION {registerSystem(m1, x) : x \in todo}

\* ECS.registerSystem
registerSystem(m, s) ==
  LET pushed == [m EXCEPT !.systems = Append(@, s)]
  IN  UNION {IF m1.isRunning /\ HasInit(s) THEN RunInit(m1, s) ELSE {m1}
             : m1 \in sortSystems(pushed)}

\* for (const system of this.systems) in ECS.init: the array is read live,
\* so entries pushed or moved by a hook are seen by the rest of the loop
RECURSIVE InitLoop(_, _)
InitLoop(m, i) ==
  IF i > Len(m.systems) THEN {m}
  ELSE LET s == m.systems[i]
       IN  UNION {InitLoop(m1, i + 1)
                  : m1 \in IF HasInit(s) THEN RunInit(m, s) ELSE {m}}

\* ECS.init
init(m) ==
  IF m.isRunning THEN {m}
  ELSE InitLoop([m EXCEPT !.isRunning = TRUE,
                          !.initCount = [s \in SysIds |-> 0],
                          !.early = {}], 1)

RECURSIVE UpdateLoop(_, _, _, _)
UpdateLoop(m, i, d, t) ==
  IF i > Len(m.systems) THEN {m}
  ELSE LET s == m.systems[i]
       IN  UNION {UpdateLoop(m1, i + 1, d, t)
                  : m1 \in IF HasUpdate(s) THEN RunUpdate(m, s, d, t) ELSE {m}}

\* ECS.update without the isRunning guard
update_NoGuard(m, d, t) == UpdateLoop(m, 1, d, t)

\* ECS.update
update(m, d, t) ==
  IF ~m.isRunning THEN {m} ELSE UpdateLoop(m, 1, d, t)

RECURSIVE CleanupLoop(_, _)
CleanupLoop(m, i) ==
  IF i > Len(m.systems) THEN m
  ELSE LET s == m.systems[i]
       IN  CleanupLoop(IF HasCleanup(s) THEN Logged(m, s, "cleanup", 0, 0) ELSE m,
                       i + 1)

\* ECS.shutdown
shutdown(m) ==
  IF ~m.isRunning THEN {m}
  ELSE {CleanupLoop([m EXCEPT !.isRunning = FALSE], 1)}

----------------------------------------------------------------------------
(* JavaScript numbers.  A Number is a binary floating-point value; the     *)
(* model keeps MantissaBits bits of significand where a double keeps 53     *)
(* and rounds every arithmetic result to the nearest such value, ties to    *)
(* even.  A time in ms is held as an integer count of 2^-MsFrac ms and a    *)
(* time in seconds as a count of 2^-SecFrac s; the units are fine enough    *)
(* that every rounded value of the explored runs is a whole count.          *)

MsFrac == MantissaBits - 1
SecFrac == MantissaBits + 9

\* the powers of two a 32-bit integer holds
Powers == [n \in 0..30 |-> IF n = 0 THEN 1 ELSE 2 ^ n]

Pow2(n) == Powers[n]

Abs(n) == IF n < 0 THEN 0 - n ELSE n

\* n/d rounded to an integer, ties to even (n >= 0, d > 0)
RoundQ(n, d) ==
  LET q == n \div d
      r == n % d
  IN  IF 2 * r > d \/ (2 * r = d /\ q % 2 = 1) THEN q + 1 ELSE q

\* the exponent of the last significand bit of n/d: the least e >= 0 with
\* n/d < 2^(MantissaBits + e)
RECURSIVE Exponent(_, _, _)
Exponent(n, d, e) ==
  IF n < d * Pow2(MantissaBits + e) THEN e ELSE Exponent(n, d, e + 1)

\* the Number nearest to n/d
Fl(n, d) ==
  LET e == Exponent(Abs(n), Abs(d), 0)
      m == RoundQ(Abs(n), Abs(d) * Pow2(e)) * Pow2(e)
  IN  IF (n < 0) # (d < 0) THEN 0 - m ELSE m

\* a whole number of ms as a count of ms units
Ms(t) == t * Pow2(MsFrac)

\* x / 1000 for x in ms units, as a count of second units
ToSeconds(x) == Fl(x * Pow2(SecFrac - MsFrac), MsPerSecond)

----------------------------------------------------------------------------
(* class GameLoop.  A GameLoop object g has the fields of the class; the    *)
(* frames the host has been asked for and not yet delivered or cancelled    *)
(* are kept beside it.                                                      *)

\* the GameLoop objects
LoopIds == {1, 2}

\* nothing seen: the loop was started when the clock read origin, no frame
\* callback since then had its deltaTime capped, none dispatched a tick;
\* floor is the least timestamp the host may pass to the next frame
\* callback, lagged the number of frames that came with a timestamp before
\* lastTime since the loop was built, total the number of ticks dispatched
\* since the loop was built; fresh: no frame callback got past its
\* isRunning test since the start()
Unseen(origin, floor, lagged, total) ==
  [origin |-> origin, capped |-> FALSE, ticks |-> 0, floor |-> floor,
   lagged |-> lagged, total |-> total, fresh |-> TRUE]

Max(a, b) == IF a > b THEN a ELSE b

\* the options objects passed to the constructor
Options ==
  {<<>>, [frameRate |-> 30], [frameRate |-> 0], [maxDeltaTime |-> 100],
   [frameRate |-> -60]}

\* the callbacks passed to subscribe: "noop" touches nothing of the loop,
\* "halt" calls stop() on the loop that invokes it
Callbacks == {"noop", "halt"}

\* "drop" invokes the unsubscribe handle that subscribe("noop") returned
\* "ecs" is the subscriber of useGameStore.initialize: what it does to the
\* ECS is EcsTicks
HandleCallbacks == {"noop", "drop"}

\* field initialisers and constructor
NewGameLoop(options) ==
  LET rate == IF "frameRate" \in DOMAIN options /\ options.frameRate # 0
              THEN options.frameRate ELSE DefaultFrameRate
      maxd == IF "maxDeltaTime" \in DOMAIN options /\ options.maxDeltaTime # 0
              THEN options.maxDeltaTime ELSE DefaultMaxDeltaTime
  IN  [rafId |-> 0,
       isRunning |-> FALSE,
       lastTime |-> 0,
       accumulatedTime |-> 0,
       elapsedTime |-> 0,
       frameRate |-> rate,
       timeStep |-> Fl(Ms(MsPerSecond), rate),
       maxDeltaTime |-> Ms(maxd),
       subscribers |-> <<>>]

\* subscribe: push
subscribe(g, cb) == [g EXCEPT !.subscribers = Append(@, cb)]

\* requestAnimationFrame: a handle no frame asked for has
RequestAnimationFrame(g, frames) ==
  CHOOSE h \in 1..(Cardinality(frames) + 2) :
    /\ h \notin frames \cup {g.rafId}
    /\ \A k \in 1..(h - 1) : k \in frames \cup {g.rafId}

\* the unsubscribe handle of callback cb: filter((x) => x !== cb)
RECURSIVE Without(_, _, _)
Without(subs, cb, i) ==
  IF i > Len(subs) THEN <<>>
  ELSE (IF subs[i] # cb THEN <<subs[i]>> ELSE <<>>) \o Without(subs, cb, i + 1)

unsubscribe(g, cb) == [g EXCEPT !.subscribers = Without(@, cb, 1)]

\* start without the isRunning test
start_NoGuard(g, frames, now) ==
  LET h == RequestAnimationFrame(g, frames)
  IN  <<[g EXCEPT !.isRunning = TRUE, !.lastTime = now, !.rafId = h],
        frames \cup {h}>>

\* start without lastTime = performance.now()
start_NoClock(g, frames, now) ==
  IF g.isRunning THEN <<g, frames>>
  ELSE LET h == RequestAnimationFrame(g, frames)
       IN  <<[g EXCEPT !.isRunning = TRUE, !.rafId = h], frames \cup {h}>>

\* start, called when performance.now() is now: the loop and the frames
\* asked for
start(g, frames, now) ==
  IF g.isRunning THEN <<g, frames>>
  ELSE LET h == RequestAnimationFrame(g, frames)
       IN  <<[g EXCEPT !.isRunning = TRUE, !.lastTime = now, !.rafId = h],
             frames \cup {h}>>

\* stop
stop(g, frames) ==
  IF ~g.isRunning THEN <<g, frames>>
  ELSE IF g.rafId # 0
       THEN <<[g EXCEPT !.isRunning = FALSE, !.rafId = 0], frames \ {g.rafId}>>
       ELSE <<[g EXCEPT !.isRunning = FALSE], frames>>

\* A frame callback in progress is c = [g, frames, log]: the loop, the
\* frames asked for and the subscriber calls made so far.

\* subscriber(deltaSeconds, this.elapsedTime), the subscriber being cb
Callback(c, cb, tick) ==
  LET call == [cb |-> cb, tick |-> tick,
               delta |-> ToSeconds(c.g.timeStep),
               elapsed |-> c.g.elapsedTime]
      halted == IF cb = "halt" THEN stop(c.g, c.frames)
                ELSE IF cb = "drop" THEN <<unsubscribe(c.g, "noop"), c.frames>>
                ELSE <<c.g, c.frames>>
  IN  [g |-> halted[1], frames |-> halted[2], log |-> Append(c.log, call)]

\* for (const subscriber of this.subscribers) subscriber(...) over subs,
\* the array this.subscribers was when the statement began: an unsubscribe
\* handle assigns a new array to the field and leaves that one as it is,
\* and no callback of the model pushes to it
RECURSIVE Notify(_, _, _, _), Notify_Reverse(_, _, _, _)

\* the subscribers called last to first
Notify_Reverse(c, subs, i, tick) ==
  IF i > Len(subs) THEN c
  ELSE Notify_Reverse(Callback(c, subs[Len(subs) + 1 - i], tick), subs, i + 1, tick)

Notify(c, subs, i, tick) ==
  IF i > Len(subs) THEN c
  ELSE Notify(Callback(c, subs[i], tick), subs, i + 1, tick)

\* deltaTime > maxDeltaTime => deltaTime = maxDeltaTime
Clamp(g, deltaTime) ==
  IF deltaTime > g.maxDeltaTime THEN g.maxDeltaTime ELSE deltaTime

\* elapsedTime advanced by the whole timesteps accumulated
Accumulate_Ticks(g, deltaTime) ==
  LET a == Fl(g.accumulatedTime + deltaTime, 1)
      n == IF a < 0 THEN 0 ELSE a \div g.timeStep
  IN  [g EXCEPT !.accumulatedTime = a,
                !.elapsedTime = Fl(@ + ToSeconds(n * g.timeStep), 1)]

\* accumulatedTime += deltaTime; elapsedTime += deltaTime / 1000
Accumulate(g, deltaTime) ==
  [g EXCEPT !.accumulatedTime = Fl(@ + deltaTime, 1),
            !.elapsedTime = Fl(@ + ToSeconds(deltaTime), 1)]

\* while (accumulatedTime >= timeStep): the callback after the while
\* statement, the number of ticks dispatched, n counting those already
\* done, and whether the statement goes on for ever.  It does when a tick
\* leaves accumulatedTime no smaller than it was: no subscriber writes
\* accumulatedTime or timeStep, so the test holds again after every later
\* tick; the callback and the count are then those after that tick.
RECURSIVE Dispatch(_, _)
Dispatch(c, n) ==
  IF c.g.accumulatedTime >= c.g.timeStep
  THEN LET c1 == Notify(c, c.g.subscribers, 1, n + 1)
           c2 == [c1 EXCEPT !.g.accumulatedTime = Fl(@ - c1.g.timeStep, 1)]
       IN  IF c2.g.accumulatedTime >= c.g.accumulatedTime
           THEN <<c2, n + 1, TRUE>>
           ELSE Dispatch(c2, n + 1)
  ELSE <<c, n, FALSE>>

\* loop(currentTime) without the isRunning test
loop_NoGuard(g, frames, currentTime) ==
  LET deltaTime == Fl(Ms(currentTime) - Ms(g.lastTime), 1)
      g1 == Accumulate([g EXCEPT !.lastTime = currentTime],
                       Clamp(g, deltaTime))
      done == Dispatch([g |-> g1, frames |-> frames, log |-> <<>>], 0)
      c == done[1]
      h == RequestAnimationFrame(c.g, c.frames)
  IN  [g |-> IF done[3] THEN c.g ELSE [c.g EXCEPT !.rafId = h],
       frames |-> IF done[3] THEN c.frames ELSE c.frames \cup {h},
       log |-> c.log,
       ran |-> TRUE,
       grown |-> g1.accumulatedTime,
       ticks |-> done[2],
       capped |-> deltaTime > g.maxDeltaTime,
       hung |-> done[3]]

\* the frame callback loop(currentTime): the loop, the frames asked for,
\* the subscriber calls made, whether the callback got past its isRunning
\* test, accumulatedTime before the while statement, the number of ticks
\* dispatched, whether deltaTime was capped and whether the callback never
\* returns (hung: the values are then those after the tick that shows it)
loop(g, frames, currentTime) ==
  LET deltaTime == Fl(Ms(currentTime) - Ms(g.lastTime), 1)
      g1 == Accumulate([g EXCEPT !.lastTime = currentTime],
                       Clamp(g, deltaTime))
      done == Dispatch([g |-> g1, frames |-> frames, log |-> <<>>], 0)
      c == done[1]
      h == RequestAnimationFrame(c.g, c.frames)
  IN  IF ~g.isRunning
      THEN [g |-> g, frames |-> frames, log |-> <<>>, ran |-> FALSE,
            grown |-> 0, ticks |-> 0, capped |-> FALSE, hung |-> FALSE]
      ELSE [g |-> IF done[3] THEN c.g ELSE [c.g EXCEPT !.rafId = h],
            frames |-> IF done[3] THEN c.frames ELSE c.frames \cup {h},
            log |-> c.log,
            ran |-> TRUE,
            grown |-> g1.accumulatedTime,
            ticks |-> done[2],
            capped |-> deltaTime > g.maxDeltaTime,
            hung |-> done[3]]

----------------------------------------------------------------------------
(* State of the program and its initial state *)

TheWorld == [entities |-> entities, heap |-> heap, rank |-> rank]

\* objects no slot of World.entities refers to are dropped from the heap
WorldBecomes(w) ==
  \E v \in {w} :
    /\ entities' = v.entities
    /\ heap' = [r \in Range(v.entities) |-> v.heap[r]]
    /\ rank' = v.rank

Machine == [systems |-> systems, isRunning |-> isRunning, world |-> TheWorld,
            calls |-> <<>>, initCount |-> initCount, early |-> early,
            inputState |-> inputState]

Becomes(m) ==
  /\ systems' = m.systems
  /\ isRunning' = m.isRunning
  /\ calls' = m.calls
  /\ initCount' = m.initCount
  /\ early' = m.early
  /\ inputState' = m.inputState
  /\ WorldBecomes(m.world)

----------------------------------------------------------------------------
(* The stores: useGameStore (stores/gameStore.ts), useEnemyStore,           *)
(* usePlayerStore and useLevelManager.  A store is the record of its state  *)
(* fields; set(partial) is EXCEPT.                                          *)

MaxEnemies == 2     \* longest enemies list explored
MaxMiscount == 2    \* removeEnemy and damageEnemy are explored while the
                    \* counters are less than this far from the list
MaxTimeouts == 3    \* most setTimeout callbacks pending at once

InitialHealth == 100   \* health: 100, maxHealth: 100
MaxArmor == 50         \* maxArmor: 50

Min(a, b) == IF a < b THEN a ELSE b

\* new ECS()
NewECS ==
  [systems |-> <<>>, isRunning |-> FALSE,
   world |-> [entities |-> <<>>, heap |-> <<>>, rank |-> <<>>],
   calls |-> <<>>, initCount |-> [s \in SysIds |-> 0], early |-> {},
   inputState |-> NewInputState]

\* the initial state of useGameStore
NewGameStore ==
  [gameInitialized |-> FALSE, gameRunning |-> FALSE, gamePaused |-> FALSE,
   ecs |-> "null", gameLoop |-> "null", inputManager |-> "null",
   currentLevel |-> "none", levelCompleted |-> FALSE, gameOver |-> FALSE,
   didWin |-> FALSE, showMenu |-> FALSE, showGameOver |-> FALSE]

\* The game store with the objects its actions reach is
\* p = [store, g, frames, ecs]: the store's state, the GameLoop and ECS
\* objects the store refers to once initialised, and the frames asked for.

\* initialize
initialize(p) ==
  IF p.store.gameInitialized THEN {p}
  ELSE {[store |-> [p.store EXCEPT !.ecs = "ecs", !.gameLoop = "gameLoop",
                                   !.inputManager = "inputManager",
                                   !.gameInitialized = TRUE],
         g |-> subscribe(NewGameLoop([frameRate |-> 60]), "ecs"),
         frames |-> p.frames,
         ecs |-> m] : m \in init(NewECS)}

\* startGame, called when performance.now() is now
startGame(p, now) ==
  IF ~p.store.gameInitialized \/ p.store.gameRunning THEN p
  ELSE LET r == IF p.store.gameLoop = "null" THEN <<p.g, p.frames>>
                ELSE start(p.g, p.frames, now)
       IN  [store |-> [p.store EXCEPT !.gameRunning = TRUE, !.gamePaused = FALSE,
                         !.showMenu = FALSE, !.showGameOver = FALSE,
                         !.levelCompleted = FALSE, !.gameOver = FALSE],
            g |-> r[1], frames |-> r[2], ecs |-> p.ecs]

\* pauseGame
pauseGame(p) ==
  IF ~p.store.gameRunning \/ p.store.gamePaused THEN p
  ELSE [p EXCEPT !.store = [@ EXCEPT !.gamePaused = TRUE, !.showMenu = TRUE]]

\* resumeGame
resumeGame(p) ==
  IF ~p.store.gameRunning \/ ~p.store.gamePaused THEN p
  ELSE [p EXCEPT !.store = [@ EXCEPT !.gamePaused = FALSE, !.showMenu = FALSE]]

\* stopGame
stopGame(p) ==
  IF ~p.store.gameRunning THEN p
  ELSE LET r == IF p.store.gameLoop = "null" THEN <<p.g, p.frames>>
                ELSE stop(p.g, p.frames)
       IN  [store |-> [p.store EXCEPT !.gameRunning = FALSE,
                         !.gamePaused = FALSE, !.showMenu = TRUE],
            g |-> r[1], frames |-> r[2], ecs |-> p.ecs]

\* changeLevel
changeLevel(store, level) == [store EXCEPT !.currentLevel = level]

\* completeLevel
completeLevel(p, didWin) ==
  [p EXCEPT !.store = [@ EXCEPT !.levelCompleted = TRUE, !.didWin = didWin,
                                !.gameRunning = FALSE, !.showGameOver = TRUE]]

\* setGameOver
setGameOver(p, isOver, didWin) ==
  [p EXCEPT !.store = [@ EXCEPT !.gameOver = isOver, !.didWin = didWin,
                                !.showGameOver = isOver,
                                !.gameRunning = ~isOver]]

\* restartLevel, called when performance.now() is now
restartLevel(p, now) ==
  LET currentLevel == p.store.currentLevel
      cleared == [p EXCEPT !.store = [@ EXCEPT !.gameOver = FALSE,
                                        !.showGameOver = FALSE,
                                        !.levelCompleted = FALSE]]
      changed == [cleared EXCEPT !.store = changeLevel(@, currentLevel)]
  IN  startGame(changed, now)

\* the subscriber wired in initialize, for the subscriber calls of a frame
\* callback's log from the k-th on: ecs.update(delta, elapsedTime)
RECURSIVE EcsTicks(_, _, _)
EcsTicks(m, log, k) ==
  IF k > Len(log) THEN {m}
  ELSE UNION {EcsTicks(m1, log, k + 1)
              : m1 \in IF log[k].cb = "ecs"
                       THEN update(m, log[k].delta, log[k].elapsed) ELSE {m}}

\* the initial state of useEnemyStore
NewEnemyStore == [enemies |-> <<>>, totalEnemies |-> 0, aliveEnemies |-> 0]

\* addEnemy, Math.random giving the id
addEnemy(s, id, enemy) ==
  LET newEnemy == [id |-> id, health |-> enemy.health, isDead |-> FALSE]
  IN  [enemies |-> Append(s.enemies, newEnemy),
       totalEnemies |-> s.totalEnemies + 1,
       aliveEnemies |-> s.aliveEnemies + 1]

\* find((enemy) => enemy.id === id): the index of the first match, 0 if none
Find(list, id) ==
  IF \E i \in 1..Len(list) : list[i].id = id
  THEN CHOOSE i \in 1..Len(list) :
         list[i].id = id /\ \A j \in 1..(i - 1) : list[j].id # id
  ELSE 0

\* filter((enemy) => enemy.id !== id)
RECURSIVE FilterOut(_, _, _)
FilterOut(list, id, i) ==
  IF i > Len(list) THEN <<>>
  ELSE (IF list[i].id # id THEN <<list[i]>> ELSE <<>>) \o FilterOut(list, id, i + 1)

\* removeEnemy
removeEnemy(s, id) ==
  LET at == Find(s.enemies, id)
      aliveEnemiesChange == IF at # 0 /\ ~s.enemies[at].isDead THEN -1 ELSE 0
  IN  [enemies |-> FilterOut(s.enemies, id, 1),
       totalEnemies |-> s.totalEnemies - 1,
       aliveEnemies |-> s.aliveEnemies + aliveEnemiesChange]

\* resetEnemies
resetEnemies(s) == [enemies |-> <<>>, totalEnemies |-> 0, aliveEnemies |-> 0]

\* the map of damageEnemy from the i-th enemy on: the mapped enemies and
\* the variable died, which every matching enemy assigns
RECURSIVE DamageMap(_, _, _, _, _)
DamageMap(list, id, damage, i, died) ==
  IF i > Len(list) THEN <<<<>>, died>>
  ELSE IF list[i].id = id
       THEN LET newHealth == Max(0, list[i].health - damage)
                justDied == newHealth <= 0 /\ ~list[i].isDead
                rest == DamageMap(list, id, damage, i + 1, justDied)
            IN  <<<<[list[i] EXCEPT !.health = newHealth,
                                    !.isDead = newHealth <= 0]>> \o rest[1],
                  rest[2]>>
       ELSE LET rest == DamageMap(list, id, damage, i + 1, died)
            IN  <<<<list[i]>> \o rest[1], rest[2]>>

\* damageEnemy
damageEnemy(s, id, damage) ==
  LET mapped == DamageMap(s.enemies, id, damage, 1, FALSE)
  IN  [enemies |-> mapped[1],
       totalEnemies |-> s.totalEnemies,
       aliveEnemies |-> IF mapped[2] THEN s.aliveEnemies - 1 ELSE s.aliveEnemies]

\* the initial state of usePlayerStore
NewPlayerStore ==
  [health |-> InitialHealth, maxHealth |-> InitialHealth, armor |-> 0,
   maxArmor |-> MaxArmor, isDead |-> FALSE, isInvulnerable |-> FALSE,
   damageTaken |-> FALSE]

\* setHealth
setHealth(s, health) ==
  [s EXCEPT !.health = Max(0, Min(health, s.maxHealth)),
            !.isDead = health <= 0]

\* takeDamage; amounts are even, so that amount * 0.5 is whole
takeDamage(s, amount) ==
  IF s.isInvulnerable \/ s.isDead THEN s
  ELSE LET armorDamage == IF s.armor > 0 THEN Min(s.armor, amount \div 2) ELSE 0
           newArmor == s.armor - armorDamage
           remainingDamage == amount - armorDamage
           newHealth == Max(0, s.health - remainingDamage)
           isDead == newHealth <= 0
       IN  [s EXCEPT !.health = newHealth, !.armor = newArmor,
                     !.isDead = isDead, !.damageTaken = TRUE,
                     !.isInvulnerable = ~isDead]

\* heal
heal(s, amount) == [s EXCEPT !.health = Min(s.maxHealth, s.health + amount)]

\* setIsInvulnerable
setIsInvulnerable(s, invulnerable) == [s EXCEPT !.isInvulnerable = invulnerable]

\* the initial state of useLevelManager; levels holds the ids of the levels
\* whose completed is true
NewLevelManager ==
  [levels |-> {}, currentLevelId |-> "null", levelsUnlocked |-> <<"tutorial">>,
   isLoading |-> FALSE]

\* The level manager with what its actions reach is
\* q = [store, game, timeouts]: its state, the state of useGameStore and the
\* setTimeout callbacks not yet run, each the levelId it closes over.

\* setCurrentLevel
setCurrentLevel(q, levelId) ==
  [q EXCEPT !.store = [@ EXCEPT !.isLoading = TRUE],
            !.timeouts = Append(@, levelId)]

\* the callback setCurrentLevel passes to setTimeout; the host runs the
\* callbacks of equal delay oldest first
LevelTimeout(q) ==
  LET levelId == Head(q.timeouts)
  IN  [store |-> [q.store EXCEPT !.currentLevelId = levelId, !.isLoading = FALSE],
       game |-> changeLevel(q.game, levelId),
       timeouts |-> Tail(q.timeouts)]

\* resetProgress
resetProgress(q) ==
  [q EXCEPT !.store = [@ EXCEPT !.levels = {}, !.levelsUnlocked = <<"tutorial">>,
                                !.currentLevelId = "null"]]

\* the stores as their modules create them
StoresNew ==
  /\ useGameStore = NewGameStore
  /\ useEnemyStore = NewEnemyStore
  /\ usePlayerStore = NewPlayerStore
  /\ useLevelManager = NewLevelManager
  /\ timeouts = <<>>

\* new ECS(): no systems, an empty World
EcsNew ==
  /\ systems = <<>>
  /\ isRunning = FALSE
  /\ calls = <<>>
  /\ initCount = [s \in SysIds |-> 0]
  /\ early = {}
  /\ inputState = NewInputState
  /\ entities = <<>>
  /\ heap = <<>>
  /\ rank = <<>>
  /\ result = <<>>
  /\ op = [name |-> "new"]

\* the ECS and GameLoop objects built without options
Init ==
  /\ EcsNew
  /\ loops = [i \in LoopIds |-> NewGameLoop(<<>>)]
  /\ host = [i \in LoopIds |-> {}]
  /\ seen = [i \in LoopIds |-> Unseen(0, 0, 0, 0)]
  /\ StoresNew

----------------------------------------------------------------------------
(* Specification of the system scheduler and lifecycle *)

RegisterSystem ==
  \E s \in SysIds :
    /\ Len(systems) < MaxSystems
    /\ \E m \in registerSystem(Machine, s) : Becomes(m)
    /\ op' = [name |-> "registerSystem"]
    /\ result' = <<>>
    /\ UNCHANGED <<loopVars, storeVars>>

\* createDefaultPlayer of initializeGame
CreateDefaultPlayer ==
  /\ entities = <<>>
  /\ WorldBecomes(createEntity(TheWorld,
       [transform |-> Transform(0, StartHeight), physics |-> Physics(0, FALSE),
        player |-> Player(FALSE)]))
  /\ op' = [name |-> "createDefaultPlayer"]
  /\ result' = <<>>
  /\ UNCHANGED <<loopVars, storeVars>>
  /\ UNCHANGED sysVars

EcsInit ==
  /\ \E m \in init(Machine) : Becomes(m)
  /\ op' = [name |-> "init"]
  /\ result' = <<>>
  /\ UNCHANGED <<loopVars, storeVars>>

EcsUpdate ==
  \E a \in UpdateArgs :
    /\ \A r \in DOMAIN heap :
         Get(heap[r], "transform").kind = "transform"
           => Abs(heap[r].transform.x) <= MaxPosition
    /\ \E m \in update(Machine, a[1], a[2]) : Becomes(m)
    /\ op' = [name |-> "update", delta |-> a[1], time |-> a[2]]
    /\ result' = <<>>
    /\ UNCHANGED <<loopVars, storeVars>>

EcsShutdown ==
  /\ \E m \in shutdown(Machine) : Becomes(m)
  /\ op' = [name |-> "shutdown"]
  /\ result' = <<>>
  /\ UNCHANGED <<loopVars, storeVars>>

Next ==
  RegisterSystem \/ CreateDefaultPlayer \/ EcsInit \/ EcsUpdate \/ EcsShutdown

Spec == Init /\ [][Next]_vars

----------------------------------------------------------------------------
(* Specification of a game tick: the repository's systems, registered once  *)
(* each, the entities of a level, key events and ECS.update                 *)

\* the components createDefaultPlayer and createDefaultLevel pass, and the
\* same with the other value of static or without the player component
LevelComponents ==
  LET body == {[transform |-> Transform(0, StartHeight), physics |-> Physics(0, st)]
               : st \in BOOLEAN}
  IN  body \cup {[k \in {"transform", "physics", "player"} |->
                   IF k = "player" THEN Player(FALSE) ELSE c[k]] : c \in body}

RegisterRepoSystem ==
  \E s \in RepoSystems \ Range(systems) :
    /\ \E m \in registerSystem(Machine, s) : Becomes(m)
    /\ op' = [name |-> "registerSystem"]
    /\ result' = <<>>
    /\ UNCHANGED <<loopVars, storeVars>>

SpawnEntity ==
  \E c \in LevelComponents :
    /\ Len(entities) < MaxEntities
    /\ WorldBecomes(createEntity(TheWorld, c))
    /\ op' = [name |-> "createEntity"]
    /\ result' = <<>>
    /\ UNCHANGED <<loopVars, storeVars>>
    /\ UNCHANGED sysVars

\* the listeners inputSystem.init adds are called while the system is
\* initialised
Listening == isRunning /\ initCount["input"] > 0

KeyDown ==
  \E key \in KeySet :
    /\ Listening
    /\ inputState' = handleKeyDown(inputState, key)
    /\ op' = [name |-> "keydown"]
    /\ UNCHANGED <<systems, isRunning, calls, initCount, early>>
    /\ UNCHANGED <<worldVars, loopVars, storeVars>>

KeyUp ==
  \E key \in KeySet :
    /\ Listening
    /\ inputState' = handleKeyUp(inputState, key)
    /\ op' = [name |-> "keyup"]
    /\ UNCHANGED <<systems, isRunning, calls, initCount, early>>
    /\ UNCHANGED <<worldVars, loopVars, storeVars>>

NextTick ==
  RegisterRepoSystem \/ SpawnEntity \/ EcsInit \/ KeyDown \/ KeyUp \/ EcsUpdate

SpecTick == Init /\ [][NextTick]_vars

----------------------------------------------------------------------------
(* Specification of the entity registry and the entity facade *)

\* initial components a caller passes to createEntity
ComponentSets ==
  {c \in UNION {[D -> {Str(1), Data(1), Falsy}] : D \in SUBSET {"id", "transform"}} :
     /\ "id" \in DOMAIN c => c["id"] = Str(1)
     /\ "transform" \in DOMAIN c => c["transform"] # Str(1)}

\* component names a caller passes
CallerKeys == {"id", "transform"}

\* entity ids a caller passes: its own strings and the ids nanoid() has made
IdArgs == {Str(1), Str(2)} \cup {Nano(k) : k \in 1..MaxEntities}

\* the ids the entities in the World have
WorldIds == {Get(heap[entities[i]], "id") : i \in 1..Len(entities)}

CreateEntity ==
  \E c \in ComponentSets :
    /\ Len(entities) < MaxEntities
    /\ WorldBecomes(createEntity(TheWorld, c))
    /\ op' = [name |-> "createEntity", key |-> "", hit |-> FALSE]
    /\ result' = <<>>
    /\ UNCHANGED <<loopVars, storeVars>>
  /\ UNCHANGED sysVars

RemoveEntity ==
  \E id \in IdArgs :
    /\ WorldBecomes(removeEntity(TheWorld, id))
    /\ op' = [name |-> "removeEntity", key |-> "", hit |-> id \in WorldIds,
              id |-> id]
    /\ result' = <<>>
    /\ UNCHANGED <<loopVars, storeVars>>
  /\ UNCHANGED sysVars

AddComponent ==
  \E id \in IdArgs, k \in CallerKeys, d \in {Data(1)} :
    /\ WorldBecomes(addComponent(TheWorld, id, k, d))
    /\ op' = [name |-> "addComponent", key |-> k, hit |-> id \in WorldIds]
    /\ result' = <<>>
    /\ UNCHANGED <<loopVars, storeVars>>
  /\ UNCHANGED sysVars

RemoveComponent ==
  \E id \in IdArgs, k \in CallerKeys :
    /\ WorldBecomes(removeComponent(TheWorld, id, k))
    /\ op' = [name |-> "removeComponent", key |-> k, hit |-> id \in WorldIds,
              id |-> id]
    /\ result' = <<>>
    /\ UNCHANGED <<loopVars, storeVars>>
  /\ UNCHANGED sysVars

\* a caller of getWorld() passes World.update / World.remove an entity object
\* it holds, or an object literal { id } or {} of its own
CallWorld(name, r, w) ==
  /\ WorldBecomes(IF name = "World.update" THEN WorldUpdate(w, r) ELSE WorldRemove(w, r))
  /\ op' = [name |-> name, key |-> "",
            hit |-> Get(w.heap[r], "id") \in WorldIds]
  /\ result' = <<>>
  /\ UNCHANGED <<loopVars, storeVars>>
  /\ UNCHANGED sysVars

WorldCall ==
  \E name \in {"World.update", "World.remove"} :
    \/ \E r \in DOMAIN heap : CallWorld(name, r, TheWorld)
    \/ \E e \in {[x \in {"id"} |-> id] : id \in IdArgs} \cup {<<>>} :
         CallWorld(name, NewRef(TheWorld), Alloc(TheWorld, e))

\* one tick of two caller-written systems: the first moves the entities
\* that have a transform, as playerMovementSystem.update moves players; the
\* second queries
SystemTick ==
  \E q \in QueryNames :
    \E w1 \in {MoveQueried(TheWorld, "transform")} :
        /\ WorldQuery(TheWorld, "transform") # <<>>
        /\ WorldBecomes(w1)
        /\ result' = WorldQuery(w1, q)
        /\ UNCHANGED <<loopVars, storeVars>>
        /\ op' = [name |-> "tick", key |-> q, hit |-> FALSE]
        /\ UNCHANGED sysVars

Query ==
  \E q \in QueryNames :
    /\ result' = WorldQuery(TheWorld, q)
    /\ UNCHANGED <<loopVars, storeVars>>
    /\ op' = [name |-> "query", key |-> q, hit |-> FALSE]
    /\ UNCHANGED <<sysVars, entities, heap, rank>>

NextWorld ==
  \/ CreateEntity \/ RemoveEntity \/ AddComponent \/ RemoveComponent
  \/ WorldCall \/ SystemTick \/ Query

SpecWorld == Init /\ [][NextWorld]_vars

\* the entity facade alone
NextFacade == CreateEntity \/ RemoveEntity \/ AddComponent \/ RemoveComponent

SpecFacade == Init /\ [][NextFacade]_vars

----------------------------------------------------------------------------
(* Properties of the system scheduler and lifecycle (specification Spec) *)

\* how many times the hook of system s was invoked in a log
Invocations(log, s, hook) ==
  Cardinality({i \in 1..Len(log) : log[i].sys = s /\ log[i].hook = hook})

NoDuplicates(list) == \A i, j \in 1..Len(list) : list[i] = list[j] => i = j

\* C1: in every ECS.update call made after all systems are registered (each
\* once, none registered during the call), the update hook of a system A is
\* invoked before the update hook of every system B that lists A's name in
\* its dependencies.
C1_DependencyOrder ==
  [][(op'.name = "update" /\ isRunning /\ systems' = systems /\ NoDuplicates(systems))
       => \A i, j \in 1..Len(calls') :
            SysName(calls'[i].sys) \in Dependencies(calls'[j].sys) => i < j]_vars

\* C7: init() and shutdown() are idempotent: a first init() runs the init
\* hook of each registered system exactly once and an init() on a running
\* ECS runs no hook; a first shutdown() runs each cleanup hook exactly once
\* and a shutdown() on an ECS that is not running runs no hook.
C7_IdempotentLifecycle ==
  [][/\ (op'.name = "init" =>
           IF isRunning THEN calls' = <<>>
           ELSE \A s \in Range(systems') :
                  (HasInit(s) => Invocations(calls', s, "init") = 1))
      /\ (op'.name = "shutdown" =>
           IF ~isRunning THEN calls' = <<>>
           ELSE \A x \in Range(systems') :
                  (HasCleanup(x) => Invocations(calls', x, "cleanup") = 1))]_vars

\* C8: between an init() and the following shutdown(), the init hook of
\* every registered system has been invoked exactly once, and no update hook
\* of a system ran before that system's init hook.
C8_InitOncePerRun ==
  isRunning =>
    /\ \A s \in Range(systems) : HasInit(s) => initCount[s] = 1
    /\ early = {}

\* C9: an ECS.update(delta, elapsedTime) call on a running ECS invokes the
\* update hook of each registered system exactly once, and every update hook
\* it invokes gets the call's delta and elapsedTime.
C9_UpdateOncePerTick ==
  (op.name = "update" /\ isRunning) =>
    /\ \A s \in Range(systems) :
         HasUpdate(s) => Invocations(calls, s, "update") = 1
    /\ \A i \in 1..Len(calls) :
         calls[i].hook = "update" =>
           calls[i].delta = op.delta /\ calls[i].time = op.time

NoDependencies(list) ==
  \A a, b \in Range(list) : SysName(a) \notin Dependencies(b)

\* the systems of the list that have an update hook, in the list's order
RECURSIVE WithUpdate(_, _)
WithUpdate(list, i) ==
  IF i > Len(list) THEN <<>>
  ELSE (IF HasUpdate(list[i]) THEN <<list[i]>> ELSE <<>>) \o WithUpdate(list, i + 1)

\* C22: while no registered system names a registered system in its
\* dependencies, every registerSystem call and its re-sort leave the systems
\* registered before in their places, the new ones after them, and
\* ECS.update invokes the update hooks in that order
C22_RegistrationOrder ==
  [][/\ (op'.name = "registerSystem" /\ NoDependencies(systems'))
          => /\ Len(systems') > Len(systems)
             /\ \A i \in 1..Len(systems) : systems'[i] = systems[i]
     /\ (op'.name = "update" /\ isRunning /\ systems' = systems
           /\ NoDependencies(systems))
          => [i \in 1..Len(calls') |-> calls'[i].sys] = WithUpdate(systems, 1)]_vars

----------------------------------------------------------------------------
(* Properties of the entity registry *)

IdOfSlot(i) == Get(heap[entities[i]], "id")

\* C4: after any sequence of createEntity, removeEntity, addComponent and
\* removeComponent calls no two entities held by the World have the same id
\* (specification SpecFacade).
C4_UniqueIds ==
  \A i, j \in 1..Len(entities) : i # j => IdOfSlot(i) # IdOfSlot(j)

\* C5: World.query(predicate) returns exactly the entities of the World that
\* satisfy the predicate at the time of the call, also right after another
\* system changed them in the same tick, each once per slot and in the order
\* of the World's array, which is the order in which the slots were added
\* (specification SpecWorld).
C5_QueryExact ==
  op.name \in {"query", "tick"} =>
    LET sat == {i \in 1..Len(entities) : QueryFn(op.key, heap[entities[i]])}
    IN  /\ Len(result) = Cardinality(sat)
        /\ \E f \in [1..Len(result) -> sat] :
             /\ \A k, l \in 1..Len(result) : k < l => f[k] < f[l]
             /\ \A k \in 1..Len(result) : result[k] = entities[f[k]]
        /\ rank = [i \in 1..Len(entities) |-> i]

\* a system moved two entities and the query made next in the same tick
\* returned both of them, moved
C5_Witness ==
  /\ op.name = "tick" /\ op.key = "moved"
  /\ Len(result) = 2 /\ result[1] # result[2]
  /\ Len(entities) = 2

\* C6: removeEntity, addComponent, removeComponent, World.update and
\* World.remove called with an id that no entity of the World has leave the
\* World's entity list and every entity's components as they were
\* (specification SpecWorld).
C6_NoOpOnAbsent ==
  [][(/\ op'.name \in {"removeEntity", "addComponent", "removeComponent",
                        "World.update", "World.remove"}
      /\ ~op'.hit)
       => entities' = entities /\ heap' = heap /\ rank' = rank]_vars

\* World.remove was called with an unknown id on a World that holds entities
C6_Witness ==
  /\ op.name = "World.remove" /\ ~op.hit
  /\ Len(entities) = 2

----------------------------------------------------------------------------
(* Specifications of the game loop: GameLoop objects built with the same   *)
(* options, driven by start, stop, subscribe, the unsubscribe handles and   *)
(* the frame callbacks the host delivers                                    *)

\* values of performance.now() and of the timestamps the host passes, in
\* ms.  Both clocks never go back; the timestamp of a frame is the time the
\* frame began, which may lie up to VsyncLag ms before a performance.now()
\* that was read earlier.
Times == {0, 10, 50, 250, 300}

InitLoops ==
  /\ EcsNew
  /\ \E o \in Options : loops = [i \in LoopIds |-> NewGameLoop(o)]
  /\ host = [i \in LoopIds |-> {}]
  /\ seen = [i \in LoopIds |-> Unseen(0, 0, 0, 0)]
  /\ StoresNew

\* the thread is inside a frame callback that never returns: nothing else
\* of the page runs any more
Hung == op.name = "loop" /\ op.hung

LoopBecomes(i, g, frames) ==
  /\ loops' = [loops EXCEPT ![i] = g]
  /\ host' = [host EXCEPT ![i] = frames]

SubscribeOf(i, cbs) ==
  \E cb \in cbs :
    /\ ~Hung
    /\ Len(loops[i].subscribers) < MaxSubscribers
    /\ LoopBecomes(i, subscribe(loops[i], cb), host[i])
    /\ op' = [name |-> "subscribe", id |-> i, cb |-> cb]
    /\ UNCHANGED <<sysVars, worldVars, seen, storeVars>>

Subscribe(i) == SubscribeOf(i, Callbacks)

Unsubscribe(i) ==
  \E cb \in Callbacks :
    /\ ~Hung
    /\ LoopBecomes(i, unsubscribe(loops[i], cb), host[i])
    /\ op' = [name |-> "unsubscribe", id |-> i, cb |-> cb]
    /\ UNCHANGED <<sysVars, worldVars, seen, storeVars>>

Start(i) ==
  \E now \in Times :
    /\ ~Hung
    /\ now >= loops[i].lastTime /\ now >= seen[i].floor
    /\ \E r \in {start(loops[i], host[i], now)} :
         LoopBecomes(i, r[1], r[2])
    /\ seen' = IF loops[i].isRunning THEN seen
               ELSE [seen EXCEPT ![i] =
                       Unseen(now, Max(seen[i].floor, now - VsyncLag),
                              seen[i].lagged, seen[i].total)]
    /\ op' = [name |-> "start", id |-> i, was |-> loops[i].isRunning]
    /\ UNCHANGED <<sysVars, worldVars, storeVars>>

Stop(i) ==
  /\ ~Hung
  /\ \E r \in {stop(loops[i], host[i])} : LoopBecomes(i, r[1], r[2])
  /\ op' = [name |-> "stop", id |-> i, was |-> loops[i].isRunning]
  /\ UNCHANGED <<sysVars, worldVars, seen, storeVars>>

\* the host delivers a frame it was asked for: loop(currentTime)
Frame(i) ==
  \E h \in host[i], currentTime \in Times :
    /\ ~Hung
    /\ currentTime >= seen[i].floor
    /\ currentTime < loops[i].lastTime => seen[i].lagged < MaxLagFrames
    /\ \E r \in {loop(loops[i], host[i] \ {h}, currentTime)} :
         /\ LoopBecomes(i, r.g, r.frames)
         /\ op' = [name |-> "loop", id |-> i, ran |-> r.ran,
                   carried |-> loops[i].accumulatedTime,
                   grown |-> r.grown, ticks |-> r.ticks,
                   capped |-> r.capped, log |-> r.log, hung |-> r.hung]
         /\ seen' = IF r.ran
                    THEN [seen EXCEPT ![i].capped = @ \/ r.capped,
                                      ![i].ticks = @ + r.ticks,
                                      ![i].total = @ + r.ticks,
                                      ![i].fresh = FALSE,
                                      ![i].floor = currentTime,
                                      ![i].lagged =
                                        IF currentTime < loops[i].lastTime
                                        THEN @ + 1 ELSE @]
                    ELSE seen
    /\ UNCHANGED <<sysVars, worldVars, storeVars>>

\* one GameLoop and its callers
NextLoop == Subscribe(1) \/ Unsubscribe(1) \/ Start(1) \/ Stop(1) \/ Frame(1)

SpecLoop == InitLoops /\ [][NextLoop]_vars

\* one GameLoop with a subscriber that unsubscribes another one
SubscribeHandles == SubscribeOf(1, HandleCallbacks)

NextHandles == SubscribeHandles \/ Unsubscribe(1) \/ Start(1) \/ Frame(1)

SpecHandles == InitLoops /\ [][NextHandles]_vars

\* two GameLoops, each started and then delivered frames
NextLoops == \E i \in LoopIds : Start(i) \/ Frame(i)

SpecLoops == InitLoops /\ [][NextLoops]_vars

----------------------------------------------------------------------------
(* Specification of the game store: initialize, the actions that start,     *)
(* pause and end the game, and the frames the host delivers to the store's  *)
(* GameLoop, whose subscriber updates the store's ECS                       *)

\* the store's GameLoop is loops[1] and its ECS the one of the ECS variables
GamePage == [store |-> useGameStore, g |-> loops[1], frames |-> host[1],
             ecs |-> Machine]

GameBecomes(p) ==
  /\ useGameStore' = p.store
  /\ LoopBecomes(1, p.g, p.frames)
  /\ Becomes(p.ecs)

GameStarts(p, now) ==
  seen' = IF p.g.isRunning /\ ~loops[1].isRunning
          THEN [seen EXCEPT ![1] =
                  Unseen(now, Max(seen[1].floor, now - VsyncLag),
                         seen[1].lagged, seen[1].total)]
          ELSE seen

Initialize ==
  /\ \E p \in initialize(GamePage) : GameBecomes(p)
  /\ op' = [name |-> "initialize"]
  /\ UNCHANGED <<result, seen, useEnemyStore, usePlayerStore, useLevelManager,
                 timeouts>>

StartGame ==
  \E now \in Times :
    /\ now >= loops[1].lastTime /\ now >= seen[1].floor
    /\ \E p \in {startGame(GamePage, now)} :
         GameBecomes(p) /\ GameStarts(p, now)
    /\ op' = [name |-> "startGame"]
    /\ UNCHANGED <<result, useEnemyStore, usePlayerStore, useLevelManager,
                   timeouts>>

PauseGame ==
  /\ GameBecomes(pauseGame(GamePage))
  /\ op' = [name |-> "pauseGame"]
  /\ UNCHANGED <<result, seen, useEnemyStore, usePlayerStore, useLevelManager,
                 timeouts>>

ResumeGame ==
  /\ GameBecomes(resumeGame(GamePage))
  /\ op' = [name |-> "resumeGame"]
  /\ UNCHANGED <<result, seen, useEnemyStore, usePlayerStore, useLevelManager,
                 timeouts>>

StopGame ==
  /\ GameBecomes(stopGame(GamePage))
  /\ op' = [name |-> "stopGame"]
  /\ UNCHANGED <<result, seen, useEnemyStore, usePlayerStore, useLevelManager,
                 timeouts>>

CompleteLevel ==
  \E didWin \in BOOLEAN :
    /\ GameBecomes(completeLevel(GamePage, didWin))
    /\ op' = [name |-> "completeLevel"]
    /\ UNCHANGED <<result, seen, useEnemyStore, usePlayerStore,
                   useLevelManager, timeouts>>

SetGameOver ==
  \E isOver, didWin \in BOOLEAN :
    /\ GameBecomes(setGameOver(GamePage, isOver, didWin))
    /\ op' = [name |-> "setGameOver"]
    /\ UNCHANGED <<result, seen, useEnemyStore, usePlayerStore,
                   useLevelManager, timeouts>>

RestartLevel ==
  \E now \in Times :
    /\ now >= loops[1].lastTime /\ now >= seen[1].floor
    /\ \E p \in {restartLevel(GamePage, now)} :
         GameBecomes(p) /\ GameStarts(p, now)
    /\ op' = [name |-> "restartLevel"]
    /\ UNCHANGED <<result, useEnemyStore, usePlayerStore, useLevelManager,
                   timeouts>>

\* the host delivers a frame the store's GameLoop asked for
GameFrame ==
  \E h \in host[1], currentTime \in Times :
    /\ currentTime >= seen[1].floor
    /\ currentTime < loops[1].lastTime => seen[1].lagged < MaxLagFrames
    /\ \E r \in {loop(loops[1], host[1] \ {h}, currentTime)} :
         /\ LoopBecomes(1, r.g, r.frames)
         /\ \E m \in EcsTicks(Machine, r.log, 1) : Becomes(m)
         /\ op' = [name |-> "loop", id |-> 1, ran |-> r.ran,
                   carried |-> loops[1].accumulatedTime,
                   grown |-> r.grown, ticks |-> r.ticks,
                   capped |-> r.capped, log |-> r.log, hung |-> r.hung]
         /\ seen' = IF r.ran
                    THEN [seen EXCEPT ![1].capped = @ \/ r.capped,
                                      ![1].ticks = @ + r.ticks,
                                      ![1].total = @ + r.ticks,
                                      ![1].fresh = FALSE,
                                      ![1].floor = currentTime,
                                      ![1].lagged =
                                        IF currentTime < loops[1].lastTime
                                        THEN @ + 1 ELSE @]
                    ELSE seen
    /\ UNCHANGED <<result, storeVars>>

NextGame ==
  \/ Initialize \/ StartGame \/ PauseGame \/ ResumeGame \/ StopGame
  \/ CompleteLevel \/ SetGameOver \/ RestartLevel \/ GameFrame

SpecGame == Init /\ [][NextGame]_vars

----------------------------------------------------------------------------
(* Specification of the enemy store *)

\* the ids Math.random gives, and the ids removeEnemy and damageEnemy are
\* called with
EnemyIds == {"enemy-a", "enemy-b"}

Healths == {0, 10}
Damages == {0, 5, 10}

\* how far the counters of the enemy store are from its list
Miscount ==
  LET alive == Cardinality({i \in 1..Len(useEnemyStore.enemies) :
                              ~useEnemyStore.enemies[i].isDead})
  IN  Max(Abs(useEnemyStore.totalEnemies - Len(useEnemyStore.enemies)),
          Abs(useEnemyStore.aliveEnemies - alive))

AddEnemy ==
  \E id \in EnemyIds, health \in Healths :
    /\ Len(useEnemyStore.enemies) < MaxEnemies
    /\ useEnemyStore' = addEnemy(useEnemyStore, id, [health |-> health])
    /\ op' = [name |-> "addEnemy", id |-> id]
    /\ UNCHANGED <<sysVars, worldVars, loopVars, useGameStore, usePlayerStore,
                   useLevelManager, timeouts>>

RemoveEnemy ==
  \E id \in EnemyIds :
    /\ Miscount < MaxMiscount
    /\ useEnemyStore' = removeEnemy(useEnemyStore, id)
    /\ op' = [name |-> "removeEnemy", id |-> id,
              hit |-> Find(useEnemyStore.enemies, id) # 0]
    /\ UNCHANGED <<sysVars, worldVars, loopVars, useGameStore, usePlayerStore,
                   useLevelManager, timeouts>>

DamageEnemy ==
  \E id \in EnemyIds, damage \in Damages :
    /\ Miscount < MaxMiscount
    /\ useEnemyStore' = damageEnemy(useEnemyStore, id, damage)
    /\ op' = [name |-> "damageEnemy", id |-> id]
    /\ UNCHANGED <<sysVars, worldVars, loopVars, useGameStore, usePlayerStore,
                   useLevelManager, timeouts>>

ResetEnemies ==
  /\ useEnemyStore' = resetEnemies(useEnemyStore)
  /\ op' = [name |-> "resetEnemies"]
  /\ UNCHANGED <<sysVars, worldVars, loopVars, useGameStore, usePlayerStore,
                 useLevelManager, timeouts>>

NextEnemies == AddEnemy \/ RemoveEnemy \/ DamageEnemy \/ ResetEnemies

SpecEnemies == Init /\ [][NextEnemies]_vars

----------------------------------------------------------------------------
(* Specification of the player store *)

\* arguments of setHealth, and of takeDamage and heal
HealthArgs == {0, 40, 100, 140}
Amounts == {0, 20, 60, 100}

SetHealth ==
  \E health \in HealthArgs :
    /\ usePlayerStore' = setHealth(usePlayerStore, health)
    /\ op' = [name |-> "setHealth", arg |-> health]
    /\ UNCHANGED <<sysVars, worldVars, loopVars, useGameStore, useEnemyStore,
                   useLevelManager, timeouts>>

TakeDamage ==
  \E amount \in Amounts :
    /\ usePlayerStore' = takeDamage(usePlayerStore, amount)
    /\ op' = [name |-> "takeDamage", arg |-> amount]
    /\ UNCHANGED <<sysVars, worldVars, loopVars, useGameStore, useEnemyStore,
                   useLevelManager, timeouts>>

Heal ==
  \E amount \in Amounts :
    /\ usePlayerStore' = heal(usePlayerStore, amount)
    /\ op' = [name |-> "heal", arg |-> amount]
    /\ UNCHANGED <<sysVars, worldVars, loopVars, useGameStore, useEnemyStore,
                   useLevelManager, timeouts>>

SetIsInvulnerable ==
  \E invulnerable \in BOOLEAN :
    /\ usePlayerStore' = setIsInvulnerable(usePlayerStore, invulnerable)
    /\ op' = [name |-> "setIsInvulnerable", arg |-> invulnerable]
    /\ UNCHANGED <<sysVars, worldVars, loopVars, useGameStore, useEnemyStore,
                   useLevelManager, timeouts>>

NextPlayer == SetHealth \/ TakeDamage \/ Heal \/ SetIsInvulnerable

SpecPlayer == Init /\ [][NextPlayer]_vars

----------------------------------------------------------------------------
(* Specification of the level manager: setCurrentLevel, the timers it       *)
(* sets and resetProgress                                                   *)

LevelIds == {"tutorial", "level1", "level2"}

LevelPage == [store |-> useLevelManager, game |-> useGameStore,
              timeouts |-> timeouts]

LevelBecomes(q) ==
  /\ useLevelManager' = q.store
  /\ useGameStore' = q.game
  /\ timeouts' = q.timeouts

SetCurrentLevel ==
  \E levelId \in LevelIds :
    /\ Len(timeouts) < MaxTimeouts
    /\ LevelBecomes(setCurrentLevel(LevelPage, levelId))
    /\ op' = [name |-> "setCurrentLevel", arg |-> levelId]
    /\ UNCHANGED <<sysVars, worldVars, loopVars, useEnemyStore, usePlayerStore>>

\* the host runs the oldest pending timer callback
Timeout ==
  /\ timeouts # <<>>
  /\ LevelBecomes(LevelTimeout(LevelPage))
  /\ op' = [name |-> "timeout", arg |-> Head(timeouts)]
  /\ UNCHANGED <<sysVars, worldVars, loopVars, useEnemyStore, usePlayerStore>>

ResetProgress ==
  /\ LevelBecomes(resetProgress(LevelPage))
  /\ op' = [name |-> "resetProgress"]
  /\ UNCHANGED <<sysVars, worldVars, loopVars, useEnemyStore, usePlayerStore>>

NextLevels == SetCurrentLevel \/ Timeout \/ ResetProgress

SpecLevels == Init /\ [][NextLevels]_vars


----------------------------------------------------------------------------
(* Properties of the game loop *)

\* C2: two running loops that were started at the same clock reading, got
\* their last frame at the same timestamp and had no deltaTime above
\* maxDeltaTime have dispatched the same number of ticks and have the same
\* elapsedTime, however the frames in between were spaced (specification
\* SpecLoops).
C2_ChunkingIndependent ==
  (/\ loops[1].isRunning /\ loops[2].isRunning
   /\ seen[1].origin = seen[2].origin
   /\ loops[1].lastTime = loops[2].lastTime
   /\ ~seen[1].capped /\ ~seen[2].capped)
    => /\ seen[1].ticks = seen[2].ticks
       /\ loops[1].elapsedTime = loops[2].elapsedTime

\* C3: in a frame callback of a running loop accumulatedTime
\* grows by at most maxDeltaTime before the dispatch, and the callback
\* dispatches at most floor((carried accumulatedTime + maxDeltaTime) /
\* timeStep) ticks (specification SpecLoop).
C3_ClampBound ==
  (op.name = "loop" /\ op.ran) =>
    LET g == loops[op.id]
    IN  /\ op.grown - op.carried <= g.maxDeltaTime
        /\ ~op.hung
        /\ op.ticks <= (op.carried + g.maxDeltaTime) \div g.timeStep

\* C11: start() on a loop that is running and stop() on a loop that is not
\* running change no field of the loop (isRunning, lastTime,
\* accumulatedTime, elapsedTime, rafId, subscribers) and leave the frames
\* scheduled with the host as they were, so a repeated start() schedules no
\* second frame callback (specification SpecLoop).
C11_RepeatedStartStop ==
  [][(\/ op'.name = "start" /\ loops[op'.id].isRunning
      \/ op'.name = "stop" /\ ~loops[op'.id].isRunning)
       => loops' = loops /\ host' = host]_vars

\* start() was called on a running loop that has one frame scheduled and
\* has dispatched ticks
C11_Witness ==
  /\ op.name = "start" /\ op.was
  /\ loops[op.id].isRunning
  /\ Cardinality(host[op.id]) = 1
  /\ seen[op.id].ticks > 0

\* C12: a frame callback delivered to a loop that is not running calls no
\* subscriber, dispatches no tick, changes no field of the loop and asks
\* the host for no further frame (specification SpecLoop).
C12_FrameWhenStopped ==
  [][(op'.name = "loop" /\ ~loops[op'.id].isRunning)
       => /\ op'.log = <<>> /\ op'.ticks = 0
          /\ loops' = loops
          /\ host'[op'.id] \subseteq host[op'.id]
          /\ host'[op'.id] # host[op'.id]
          /\ seen'[op'.id].ticks = seen[op'.id].ticks]_vars

\* a frame was delivered to a stopped loop that has a subscriber and had
\* dispatched ticks before; no frame is left with the host
C12_Witness ==
  /\ op.name = "loop" /\ ~op.ran
  /\ ~loops[op.id].isRunning
  /\ loops[op.id].subscribers # <<>>
  /\ seen[op.id].ticks > 0
  /\ host[op.id] = {}

\* C13: whenever a loop is not running and no frame callback of it is in
\* progress, whether stop() was called from outside or by a subscriber
\* during dispatch, its rafId is null and no frame of it is scheduled with
\* the host (specification SpecLoop).
C13_StopCancels ==
  \A i \in LoopIds :
    ~loops[i].isRunning => loops[i].rafId = 0 /\ host[i] = {}

\* how many subscriptions of callback cb a subscriber array holds
Subscriptions(subs, cb) == Cardinality({k \in 1..Len(subs) : subs[k] = cb})

\* C14: invoking the unsubscribe handle of a subscription of cb removes at
\* most that one subscription: a second subscription of the same function
\* stays, and the subscriptions of other callbacks stay in their order
\* (specification SpecLoop).
C14_UnsubscribeOne ==
  [][op'.name = "unsubscribe"
       => LET before == loops[op'.id].subscribers
              after == loops'[op'.id].subscribers
          IN  /\ Subscriptions(after, op'.cb) >= Subscriptions(before, op'.cb) - 1
              /\ Without(after, op'.cb, 1) = Without(before, op'.cb, 1)]_vars

----------------------------------------------------------------------------
(* Properties of the entity facade *)

\* C15: ECS.addComponent and ECS.removeComponent, with any component name,
\* leave the id of every entity in the World as it was (specification
\* SpecFacade).
C15_IdImmutable ==
  [][op'.name \in {"addComponent", "removeComponent"}
       => /\ Len(entities') = Len(entities)
          /\ \A i \in 1..Len(entities) :
               Get(heap'[entities'[i]], "id") = Get(heap[entities[i]], "id")]_vars

C20_RemoveComponentRemoves ==
  [][(op'.name = "removeComponent" /\ op'.hit)
       => LET r == entities[FindIndex(TheWorld, op'.id)]
          IN  op'.key \in DOMAIN heap[r]
                => /\ r \in DOMAIN heap'
                   /\ heap'[r] = Delete(heap[r], op'.key)]_vars

----------------------------------------------------------------------------
(* Properties of a game tick (specification SpecTick) *)

\* the entity objects whose physics.static is true
StaticRefs == {r \in DOMAIN heap : /\ Get(heap[r], "physics").kind = "physics"
                                   /\ heap[r].physics.static}

\* C16: an ECS.update made while the ECS runs with the input, playerMovement
\* and physics systems registered leaves transform.position and
\* physics.velocity of every entity whose physics.static is true as they
\* were, whatever other components the entity has
C16_StaticUnchanged ==
  [][(op'.name = "update" /\ isRunning /\ RepoSystems \subseteq Range(systems))
       => \A r \in StaticRefs :
            /\ r \in DOMAIN heap'
            /\ heap'[r].transform = heap[r].transform
            /\ heap'[r].physics = heap[r].physics]_vars

----------------------------------------------------------------------------
(* Properties of the game loop's clocks (specification SpecLoop) *)

\* elapsedTime * 1000 and ticks * timeStep + accumulatedTime of loop 1, in
\* units of 2^-SecFrac ms
ElapsedMs == loops[1].elapsedTime * MsPerSecond
DispatchedMs ==
  (seen[1].total * loops[1].timeStep + loops[1].accumulatedTime)
    * Pow2(SecFrac - MsFrac)

C18_CarryInRange ==
  (op.name = "loop" /\ op.ran)
    => /\ 0 <= loops[1].accumulatedTime
       /\ loops[1].accumulatedTime < loops[1].timeStep

----------------------------------------------------------------------------
(* Properties of the dispatch to subscribers (specification SpecLoop) *)

\* C19: the calls a frame callback makes are, tick after tick, one call of
\* each subscriber in subscription order, each with delta = timeStep / 1000
\* and with the loop's elapsedTime, the same in every tick of the callback
C19_DispatchOrder ==
  (op.name = "loop" /\ op.ran)
    => LET subs == loops[1].subscribers
           n == Len(subs)
       IN  /\ Len(op.log) = op.ticks * n
           /\ \A k \in 1..Len(op.log) :
                /\ op.log[k].tick = ((k - 1) \div n) + 1
                /\ op.log[k].cb = subs[((k - 1) % n) + 1]
                /\ op.log[k].delta = ToSeconds(loops[1].timeStep)
                /\ op.log[k].elapsed = loops[1].elapsedTime

\* a frame callback that dispatched two ticks or more to two different
\* subscribers
C19_Witness ==
  /\ op.name = "loop" /\ op.ran /\ op.ticks >= 2
  /\ Len(loops[1].subscribers) = 2
  /\ loops[1].subscribers[1] # loops[1].subscribers[2]
  /\ Len(op.log) >= 4

----------------------------------------------------------------------------
(* Properties of the frame callback as a whole (specification SpecLoop) *)

\* C23: every frame callback of a running GameLoop, whatever options the
\* loop was built with, dispatches finitely many ticks, returns and has
\* asked the host for the next frame
C23_FrameTerminates ==
  (op.name = "loop" /\ op.ran)
    => /\ ~op.hung
       /\ loops[1].rafId \in host[1]

----------------------------------------------------------------------------
(* Properties of the unsubscribe handles (specification SpecHandles) *)

\* C25: a callback whose unsubscribe handle has been invoked is not a
\* subscriber any more and is not invoked again: not after the handle was
\* invoked by the caller, and not after it was invoked by another
\* subscriber (here "drop", for the handle of "noop") during a tick
C25_NoCallAfterUnsubscribe ==
  /\ op.name = "unsubscribe" => op.cb \notin Range(loops[1].subscribers)
  /\ op.name = "loop"
       => /\ \A j, k \in 1..Len(op.log) :
               (j < k /\ op.log[j].cb = "drop") => op.log[k].cb # "noop"
          /\ (\E j \in 1..Len(op.log) : op.log[j].cb = "drop")
               => "noop" \notin Range(loops[1].subscribers)

----------------------------------------------------------------------------
(* Properties of the stores *)

\* C26: once useGameStore.initialize() has run, after any sequence of
\* startGame, pauseGame, resumeGame, stopGame, completeLevel, setGameOver and
\* restartLevel the flag gameRunning equals gameLoop.isActive()
\* (specification SpecGame)
C26_RunningIsActive ==
  useGameStore.gameInitialized
    => useGameStore.gameRunning = loops[1].isRunning

\* C27: a frame callback that runs while gamePaused is true dispatches no
\* tick to the ECS: the subscriber wired in initialize() makes no
\* ecs.update call (specification SpecGame)
C27_NoTickWhilePaused ==
  (op.name = "loop" /\ useGameStore.gamePaused)
    => \A k \in 1..Len(op.log) : op.log[k].cb # "ecs"

\* C28: after any sequence of addEnemy, removeEnemy, damageEnemy and
\* resetEnemies, totalEnemies is the number of enemies in the list and
\* aliveEnemies the number of listed enemies whose isDead is false
\* (specification SpecEnemies)
C28_CountersAgree ==
  /\ useEnemyStore.totalEnemies = Len(useEnemyStore.enemies)
  /\ useEnemyStore.aliveEnemies
       = Cardinality({i \in 1..Len(useEnemyStore.enemies) :
                        ~useEnemyStore.enemies[i].isDead})

\* C29: after any sequence of setHealth, takeDamage, heal and
\* setIsInvulnerable, isDead is true exactly when health is 0
\* (specification SpecPlayer)
C29_DeadIffNoHealth ==
  usePlayerStore.isDead <=> usePlayerStore.health = 0

\* C30: isLoading is true whenever a timer set by setCurrentLevel is still
\* pending, that is a requested level change has not been applied yet
\* (specification SpecLevels)
C30_LoadingWhilePending ==
  timeouts # <<>> => useLevelManager.isLoading

====
